---- MODULE Spec2Model ----
(***************************************************************************)
(* A model of the document attribute extractor: the persisted vector      *)
(* store (extraction/vector_store.py), the attribute extractor and the    *)
(* result aggregator (extraction/extractor.py) and the page extractor     *)
(* (extraction/pdf_loader.py).                                            *)
(*                                                                         *)
(* Five specifications share the variables:                               *)
(*   Spec         the vector store: builds, loads and queries,            *)
(*   SpecExtract  one extract_attribute call against a built index,       *)
(*   SpecAgg      extract_all_attributes, one loop iteration per step,    *)
(*   SpecPdf      extract_text_from_pdf,                                  *)
(*   SpecFilter   find_repeated_lines and clean_page_text.                *)
(***************************************************************************)
EXTENDS Integers, Sequences, FiniteSets, TLC

(***************************************************************************)
(* Bounds of the model.                                                    *)
(***************************************************************************)
\* the longest chunk list handed to create_vector_store under Spec
MaxChunks == 3
\* the longest chunk list of the index that extractions run against
MaxIndexed == 5
\* the longest attribute list handed to extract_all_attributes
MaxAttrs == 2
\* the largest number of physical pages of a PDF
MaxPages == 3

(***************************************************************************)
(* Program constants.                                                      *)
(***************************************************************************)
\* extract_attribute(collection, attribute_name, k: int = 5)
DefaultK == 5

None == "None"

\* create_vector_store / load_vector_store: collection_name = "document_chunks"
DefaultCollection == "document_chunks"

CollectionNames == {DefaultCollection, "other"}

(***************************************************************************)
(* The data the pipeline works on.  A Document is what chunk_pages emits:  *)
(* page_content plus the metadata page, chunk_index and source.            *)
(***************************************************************************)
Doc(text, page, idx) ==
  [page_content |-> text,
   metadata |-> [page |-> page, chunk_index |-> idx, source |-> "loan.pdf"]]

ChunkDocs ==
  { Doc("Lender: First Bank", 2, 0), Doc("Borrower: Acme Corp.", 1, 0) }

RECURSIVE SeqsUpTo(_, _)
SeqsUpTo(S, n) ==
  IF n = 0 THEN { <<>> }
  ELSE LET shorter == SeqsUpTo(S, n - 1)
       IN  shorter \cup { Append(s, x) : s \in { t \in shorter : Len(t) = n - 1 }, x \in S }

\* the non-empty chunk lists of a build
DocLists == { d \in SeqsUpTo(ChunkDocs, MaxChunks) : Len(d) >= 1 }

\* the non-empty chunk lists an index under extraction was built from
IndexedLists == { d \in SeqsUpTo(ChunkDocs, MaxIndexed) : Len(d) >= 1 }

Attributes == {"borrower", "lender"}

\* the values of k a caller may pass: below 1, in range and beyond the population
KValues == (-1) .. (MaxChunks + 1)

\* the values of k of an extraction: the default, and one on each side of the range
ExtractKValues == {0, 1, 2, DefaultK}

(***************************************************************************)
(* The embedding model named by EMBEDDING_MODEL: a fixed, deterministic    *)
(* map from text to a vector (here one coordinate).  Build and query use   *)
(* the same map.                                                           *)
(***************************************************************************)
EmbedText(text) ==
  CASE text = "borrower" -> 0
    [] text = "Borrower: Acme Corp." -> 0
    [] text = "lender" -> 2
    [] text = "Lender: First Bank" -> 2
    [] OTHER -> 1

Abs(x) == IF x < 0 THEN -x ELSE x

Distance(u, v) == Abs(u - v)

VARIABLES
  store,          \* the persist directory: collection name -> [exists, entries]
  _embedder,      \* vector_store._embedder: None or the shared instance
  constructions,  \* how many times HuggingFaceEmbeddings(...) was constructed
  call,           \* the last completed top-level call and how it ended
  qres,           \* the Query Result of the last query (ranked entries)
  xres,           \* the Extraction Result of the last extract_attribute
  request,        \* the arguments of the extract_attribute call under SpecExtract
  agg,            \* the frame of a running extract_all_attributes
  pdf,            \* the PDF handed to extract_text_from_pdf
  pages,          \* the pages extract_text_from_pdf returned
  filter          \* the boilerplate filter: its page texts, threshold and results

vars == <<store, _embedder, constructions, call, qres, xres, request, agg, pdf, pages,
          filter>>

(***************************************************************************)
(* The persisted store.                                                    *)
(***************************************************************************)
NoCollection == [exists |-> FALSE, entries |-> <<>>]

EmptyStore == [n \in CollectionNames |-> NoCollection]

\* shutil.rmtree(CHROMA_DB_PERSIST_DIRECTORY_PATH): every collection is gone
RemoveStore_Keep(st) == st

RemoveStore(st) == EmptyStore

\* client.get_or_create_collection(name)
GetOrCreateCollection(st, name) ==
  IF st[name].exists THEN st
  ELSE [st EXCEPT ![name] = [exists |-> TRUE, entries |-> <<>>]]

\* f"chunk_{i}", i the 0-based input position
ChunkId(i) == <<"chunk_", i>>

\* the ids, texts and metadatas lists of create_vector_store, zipped with the
\* embeddings of embed_documents(texts)
BuildEntries(documents) ==
  [i \in 1 .. Len(documents) |->
    [id |-> ChunkId(i - 1),
     document |-> documents[i].page_content,
     embedding |-> EmbedText(documents[i].page_content),
     metadata |-> [page |-> documents[i].metadata.page,
                   chunk_index |-> documents[i].metadata.chunk_index,
                   source |-> documents[i].metadata.source]]]

\* collection.add(ids, documents, embeddings, metadatas)
CollectionAdd(st, name, entries) ==
  [st EXCEPT ![name].entries = @ \o entries]

\* collection.count()
CollectionCount(st, name) == Len(st[name].entries)

\* _get_embedder() without the test of _embedder: a new instance on every call
GetEmbedder_Always(e) == [instance |-> "HuggingFaceEmbeddings", built |-> 1]

\* _get_embedder(): the instance, and whether this call constructed it
GetEmbedder(e) ==
  IF e = None THEN [instance |-> "HuggingFaceEmbeddings", built |-> 1]
  ELSE [instance |-> e, built |-> 0]

(***************************************************************************)
(* create_vector_store(documents, collection_name), as a function of the   *)
(* store: the store it leaves and how it ended.  embedOk is whether the    *)
(* embedding call (embed_documents) succeeds.                              *)
(***************************************************************************)
CreateVectorStore(st, documents, name, embedOk) ==
  LET removed == RemoveStore(st)
      created == GetOrCreateCollection(removed, name)
  IN  IF embedOk
      THEN [store |-> CollectionAdd(created, name, BuildEntries(documents)),
            outcome |-> "ok",
            calls |-> <<"rmtree", "get_or_create_collection", "embed_documents", "add">>]
      ELSE [store |-> created,
            outcome |-> "EmbeddingError",
            calls |-> <<"rmtree", "get_or_create_collection", "embed_documents">>]

(***************************************************************************)
(* collection.query(query_embeddings, n_results = k): the k stored entries *)
(* nearest to the query embedding, best first, ties by insertion order.    *)
(***************************************************************************)
Nearest(entries, qe, S) ==
  CHOOSE i \in S : \A j \in S :
    \/ Distance(qe, entries[i].embedding) < Distance(qe, entries[j].embedding)
    \/ /\ Distance(qe, entries[i].embedding) = Distance(qe, entries[j].embedding)
       /\ i <= j

RECURSIVE RankFrom(_, _, _, _)
RankFrom(entries, qe, S, k) ==
  IF k <= 0 \/ S = {} THEN <<>>
  ELSE LET b == Nearest(entries, qe, S)
       IN  <<entries[b]>> \o RankFrom(entries, qe, S \ {b}, k - 1)

CollectionQuery(entries, qe, k) == RankFrom(entries, qe, DOMAIN entries, k)

\* the guard of query_vector_store: k beyond the population is refused
QueryGuard_OffByOne(k, collection_size) == k > collection_size + 1

QueryGuard(k, collection_size) == k > collection_size

(***************************************************************************)
(* query_vector_store(collection, query, k).  embedOk is whether           *)
(* embed_query succeeds.  The storage layer itself refuses n_results < 1.  *)
(***************************************************************************)
QueryVectorStore(st, name, query, k, embedOk) ==
  LET collection_size == CollectionCount(st, name)
  IN  IF QueryGuard(k, collection_size)
      THEN [outcome |-> "InvalidQuery", calls |-> <<"count">>, ranked |-> <<>>]
      ELSE IF ~embedOk
      THEN [outcome |-> "EmbeddingError", calls |-> <<"count", "embed_query">>,
            ranked |-> <<>>]
      ELSE IF k < 1
      THEN [outcome |-> "StorageError", calls |-> <<"count", "embed_query", "query">>,
            ranked |-> <<>>]
      ELSE [outcome |-> "ok", calls |-> <<"count", "embed_query", "query">>,
            ranked |-> CollectionQuery(st[name].entries, EmbedText(query), k)]

(***************************************************************************)
(* Text.  A text is a sequence of tokens: whitespace, the code fence, the  *)
(* punctuation of JSON, JSON string literals, numbers and literals, and    *)
(* plain words.  strip, startswith, split, rsplit and json.loads work on   *)
(* it as the code's string operations work on the characters.              *)
(***************************************************************************)
Tok(k, s) == [k |-> k, s |-> s]

Ws == Tok("ws", " ")
Nl == Tok("ws", "\n")
\* the three backticks of a markdown code fence
Fence == Tok("fence", "fence")
LBrace == Tok("lbrace", "{")
RBrace == Tok("rbrace", "}")
LBracket == Tok("lbracket", "[")
RBracket == Tok("rbracket", "]")
Colon == Tok("colon", ":")
Comma == Tok("comma", ",")
Str(s) == Tok("str", s)
Num(s) == Tok("num", s)
Lit(s) == Tok("lit", s)
Word(s) == Tok("word", s)

\* the text of a Python string constant
Text(s) == IF s = "" THEN <<>> ELSE <<Word(s)>>

RECURSIVE LStrip(_)
LStrip(t) == IF t # <<>> /\ t[1].k = "ws" THEN LStrip(Tail(t)) ELSE t

RECURSIVE RStrip(_)
RStrip(t) ==
  IF t # <<>> /\ t[Len(t)].k = "ws" THEN RStrip(SubSeq(t, 1, Len(t) - 1)) ELSE t

\* str.strip()
Strip(t) == RStrip(LStrip(t))

\* raw.split("\n", 1)[-1]: what follows the first newline, or all of raw
AfterFirstNewline(t) ==
  IF \E i \in 1 .. Len(t) : t[i] = Nl
  THEN LET i == CHOOSE i \in 1 .. Len(t) : t[i] = Nl /\ \A j \in 1 .. (i - 1) : t[j] # Nl
       IN  SubSeq(t, i + 1, Len(t))
  ELSE t

\* raw.rsplit(fence, 1)[0]: what precedes the last fence, or all of raw
BeforeLastFence(t) ==
  IF \E i \in 1 .. Len(t) : t[i] = Fence
  THEN LET i == CHOOSE i \in 1 .. Len(t) :
                  t[i] = Fence /\ \A j \in (i + 1) .. Len(t) : t[j] # Fence
       IN  SubSeq(t, 1, i - 1)
  ELSE t

\* "Strip markdown fences if present", then strip again
StripFences(raw0) ==
  LET raw1 == IF raw0 # <<>> /\ raw0[1] = Fence THEN AfterFirstNewline(raw0) ELSE raw0
      raw2 == IF raw1 # <<>> /\ raw1[Len(raw1)] = Fence THEN BeforeLastFence(raw1) ELSE raw1
  IN  Strip(raw2)

(***************************************************************************)
(* Python values: str, number, None/True/False, list and dict.  A dict is  *)
(* its key-value pairs in source order; a later pair of a key wins.        *)
(***************************************************************************)
PyStr(text) == [t |-> "str", s |-> text, m |-> <<>>]
PyNum(s) == [t |-> "num", s |-> <<Word(s)>>, m |-> <<>>]
PyLit(s) == [t |-> "lit", s |-> <<Word(s)>>, m |-> <<>>]
PyList(items) == [t |-> "list", s |-> <<>>, m |-> items]
PyDict(pairs) == [t |-> "dict", s |-> <<>>, m |-> pairs]

\* dict.get(key, default)
DictGet(d, key, default) ==
  IF \E i \in 1 .. Len(d.m) : d.m[i][1] = key
  THEN d.m[CHOOSE i \in 1 .. Len(d.m) :
             d.m[i][1] = key /\ \A j \in (i + 1) .. Len(d.m) : d.m[j][1] # key][2]
  ELSE default

(***************************************************************************)
(* json.loads(raw): a recursive-descent parse of one JSON value followed   *)
(* by nothing but whitespace; ok = FALSE is JSONDecodeError.               *)
(***************************************************************************)
ParseFail == [ok |-> FALSE, val |-> PyLit("None"), rest |-> <<>>]

ParseOk(v, rest) == [ok |-> TRUE, val |-> v, rest |-> rest]

RECURSIVE ParseValue(_)
RECURSIVE ParseMembers(_, _)
RECURSIVE ParseElements(_, _)

ParseValue(t0) ==
  LET t == LStrip(t0)
  IN  IF t = <<>> THEN ParseFail
      ELSE CASE t[1].k = "str" -> ParseOk(PyStr(Text(t[1].s)), Tail(t))
             [] t[1].k = "num" -> ParseOk(PyNum(t[1].s), Tail(t))
             [] t[1].k = "lit" -> ParseOk(PyLit(t[1].s), Tail(t))
             [] t[1].k = "lbrace" ->
                  LET r == LStrip(Tail(t))
                  IN  IF r # <<>> /\ r[1] = RBrace THEN ParseOk(PyDict(<<>>), Tail(r))
                      ELSE ParseMembers(r, <<>>)
             [] t[1].k = "lbracket" ->
                  LET r == LStrip(Tail(t))
                  IN  IF r # <<>> /\ r[1] = RBracket THEN ParseOk(PyList(<<>>), Tail(r))
                      ELSE ParseElements(r, <<>>)
             [] OTHER -> ParseFail

\* the members of an object after "{" or ",": "key" : value, then "," or "}"
ParseMembers(t, acc) ==
  IF t = <<>> \/ t[1].k # "str" THEN ParseFail
  ELSE LET c == LStrip(Tail(t))
       IN  IF c = <<>> \/ c[1] # Colon THEN ParseFail
           ELSE LET v == ParseValue(Tail(c))
                    r == LStrip(v.rest)
                    pairs == Append(acc, <<t[1].s, v.val>>)
                IN  IF ~v.ok \/ r = <<>> THEN ParseFail
                    ELSE IF r[1] = RBrace THEN ParseOk(PyDict(pairs), Tail(r))
                    ELSE IF r[1] = Comma THEN ParseMembers(LStrip(Tail(r)), pairs)
                    ELSE ParseFail

\* the elements of an array after "[" or ",": value, then "," or "]"
ParseElements(t, acc) ==
  LET v == ParseValue(t)
      r == LStrip(v.rest)
      items == Append(acc, v.val)
  IN  IF ~v.ok \/ r = <<>> THEN ParseFail
      ELSE IF r[1] = RBracket THEN ParseOk(PyList(items), Tail(r))
      ELSE IF r[1] = Comma THEN ParseElements(Tail(r), items)
      ELSE ParseFail

json_loads(raw) ==
  LET v == ParseValue(raw)
  IN  IF v.ok /\ LStrip(v.rest) = <<>> THEN v ELSE ParseFail

(***************************************************************************)
(* response.content of the language model: a str, a list of parts (a dict  *)
(* with "text", a str, or anything else, which str() renders) or a dict    *)
(* with "text".                                                            *)
(***************************************************************************)
StrContent(text) == [kind |-> "str", text |-> text, parts |-> <<>>]
ListContent(parts) == [kind |-> "list", text |-> <<>>, parts |-> parts]
DictContent(text) == [kind |-> "dict", text |-> text, parts |-> <<>>]
Part(kind, text) == [kind |-> kind, text |-> text]

\* " ".join(parts)
RECURSIVE JoinParts(_)
JoinParts(parts) ==
  IF parts = <<>> THEN <<>>
  ELSE IF Len(parts) = 1 THEN parts[1].text
  ELSE parts[1].text \o <<Ws>> \o JoinParts(Tail(parts))

\* lines 77-89 of extract_attribute: the content as one str
NormalizeContent(content) ==
  IF content.kind = "list" THEN JoinParts(content.parts) ELSE content.text

\* list(dict.fromkeys(xs)): the distinct elements in first-seen order
\* sorted(set(xs)): the distinct values in ascending order
RECURSIVE FirstSeen_Sorted(_)
FirstSeen_Sorted(xs) ==
  IF xs = <<>> THEN <<>>
  ELSE LET least == CHOOSE i \in 1 .. Len(xs) : \A j \in 1 .. Len(xs) : xs[i] <= xs[j]
           Other(x) == x # xs[least]
       IN  <<xs[least]>> \o FirstSeen_Sorted(SelectSeq(xs, Other))

RECURSIVE FirstSeen(_)
FirstSeen(xs) ==
  IF xs = <<>> THEN <<>>
  ELSE LET front == FirstSeen(SubSeq(xs, 1, Len(xs) - 1))
           x == xs[Len(xs)]
       IN  IF \E i \in 1 .. Len(front) : front[i] = x THEN front ELSE Append(front, x)

NoResult ==
  [value |-> PyLit("None"), confidence |-> PyLit("None"), reasoning |-> PyLit("None"),
   source_pages |-> <<>>, source_chunks |-> <<>>]

\* the dict of the except branch
FallbackParsed(raw) ==
  PyDict(<< <<"value", PyStr(raw)>>,
            <<"confidence", PyStr(Text("low"))>>,
            <<"reasoning", PyStr(Text("Failed to parse JSON"))>> >>)

(***************************************************************************)
(* Lines 77-110 of extract_attribute: from the response content to the     *)
(* returned dict.  parsed.get on a value that is no dict raises            *)
(* AttributeError, which nothing catches.                                  *)
(***************************************************************************)
ParseResponse(content, source_pages, source_chunks) ==
  LET raw == StripFences(Strip(NormalizeContent(content)))
      loaded == json_loads(raw)
      parsed == IF loaded.ok THEN loaded.val ELSE FallbackParsed(raw)
  IN  IF parsed.t # "dict"
      THEN [outcome |-> "AttributeError", result |-> NoResult]
      ELSE [outcome |-> "ok",
            result |-> [value |-> DictGet(parsed, "value", PyStr(Text("not found"))),
                        confidence |-> DictGet(parsed, "confidence", PyStr(Text("low"))),
                        reasoning |-> DictGet(parsed, "reasoning", PyStr(Text(""))),
                        source_pages |-> source_pages,
                        source_chunks |-> source_chunks]]

(***************************************************************************)
(* extract_attribute(collection, attribute_name, k).  env says which of    *)
(* the outside calls succeed: get_secret, the embedding of the query, the  *)
(* language model, and what the language model answers.                    *)
(***************************************************************************)
ExtractAttribute(st, name, attribute_name, k, env) ==
  IF ~env.secretOk
  THEN [outcome |-> "KeyError", calls |-> <<"get_secret">>, ranked |-> <<>>,
        result |-> NoResult]
  ELSE LET results == QueryVectorStore(st, name, attribute_name, k, env.embedOk)
           docs == [i \in 1 .. Len(results.ranked) |-> results.ranked[i].document]
           metas == [i \in 1 .. Len(results.ranked) |-> results.ranked[i].metadata]
           source_chunks == docs
           source_pages == FirstSeen([i \in 1 .. Len(metas) |-> metas[i].page])
           calls == <<"get_secret">> \o results.calls \o <<"llm.invoke">>
       IN  IF results.outcome # "ok"
           THEN [outcome |-> results.outcome, calls |-> <<"get_secret">> \o results.calls,
                 ranked |-> <<>>, result |-> NoResult]
           ELSE IF ~env.llmOk
           THEN [outcome |-> "GenerationError", calls |-> calls,
                 ranked |-> results.ranked, result |-> NoResult]
           ELSE LET r == ParseResponse(env.content, source_pages, source_chunks)
                IN  [outcome |-> r.outcome, calls |-> calls,
                     ranked |-> results.ranked, result |-> r.result]

(***************************************************************************)
(* What the language model may answer.                                     *)
(***************************************************************************)
GoodObject ==
  <<LBrace, Str("value"), Colon, Ws, Str("Acme Corp."), Comma, Ws,
    Str("confidence"), Colon, Ws, Str("high"), Comma, Ws,
    Str("reasoning"), Colon, Ws, Str("Named on page 1"), RBrace>>

Prose == <<Word("The"), Ws, Word("borrower"), Ws, Word("is"), Ws, Word("Acme")>>

Responses ==
  { StrContent(GoodObject),
    StrContent(<<Ws>> \o GoodObject \o <<Nl>>),
    \* fenced, with and without a language tag
    StrContent(<<Fence, Word("json"), Nl>> \o GoodObject \o <<Nl, Fence>>),
    StrContent(<<Fence, Nl>> \o GoodObject \o <<Nl, Fence, Nl>>),
    StrContent(<<Fence>>),
    StrContent(<<Fence, Word("text"), Nl>> \o Prose \o <<Nl, Fence>>),
    \* prose, and nothing at all
    StrContent(<<Nl>> \o Prose \o <<Ws, Nl>>),
    StrContent(<<>>),
    \* an object followed by prose, and a truncated object
    StrContent(GoodObject \o <<Nl>> \o Prose),
    StrContent(<<LBrace, Str("value"), Colon, Ws>>),
    \* JSON that is no object
    StrContent(<<Num("42")>>),
    StrContent(<<Str("Acme Corp.")>>),
    StrContent(<<LBracket, Str("Acme Corp."), Comma, Ws, Num("1"), RBracket>>),
    StrContent(<<Lit("null")>>),
    \* objects with other keys or other confidence values
    StrContent(<<LBrace, RBrace>>),
    StrContent(<<LBrace, Str("value"), Colon, Str("not found"), RBrace>>),
    StrContent(<<LBrace, Str("value"), Colon, Str("Acme"), Comma,
                 Str("confidence"), Colon, Str("very high"), RBrace>>),
    StrContent(<<LBrace, Str("value"), Colon, Str("Acme"), Comma,
                 Str("confidence"), Colon, Num("0.9"), RBrace>>),
    StrContent(<<LBrace, Str("confidence"), Colon, Str("medium"), Comma,
                 Str("confidence"), Colon, Str("low"), Comma,
                 Str("value"), Colon, LBracket, RBracket, RBrace>>),
    \* a list of parts
    ListContent(<<Part("dict_text", <<LBrace, Str("value"), Colon>>),
                  Part("str", <<Str("Acme"), RBrace>>)>>),
    ListContent(<<Part("other", <<Word("{'type': 'image_url'}")>>)>>),
    DictContent(Prose) }

NoContent == StrContent(<<>>)

(***************************************************************************)
(* The state after the modules are imported, and the record of a call.     *)
(***************************************************************************)
NoCall ==
  [op |-> "none", name |-> "", k |-> 0, query |-> "", documents |-> <<>>,
   content |-> NoContent, outcome |-> "none", calls |-> <<>>, before |-> EmptyStore]

NoEnv == [secretOk |-> TRUE, embedOk |-> TRUE, llmOk |-> FALSE, content |-> NoContent]

NoRequest == [collection |-> "", attribute_name |-> "", k |-> 0, env |-> NoEnv]

NoAgg ==
  [pc |-> "idle", attribute_list |-> <<>>, pos |-> 0, results |-> <<>>,
   error |-> "none", returned |-> <<>>, started |-> <<>>, outcomes |-> <<>>]

NoPdf == [readable |-> TRUE, pages |-> <<>>]

NoFilter ==
  [page_texts |-> <<>>, threshold |-> <<1, 2>>, repeated |-> {}, cleaned |-> <<>>,
   done |-> FALSE]

\* what the outside world may do during one extract_attribute: the secret is
\* there or not, the embedding and the language model answer or fail
Envs(contents) ==
  { [secretOk |-> TRUE, embedOk |-> TRUE, llmOk |-> TRUE, content |-> c] : c \in contents }
  \cup { [secretOk |-> s, embedOk |-> e, llmOk |-> FALSE, content |-> NoContent] :
           s \in BOOLEAN, e \in BOOLEAN }

\* the calls of a run that reach _get_embedder
UsesEmbedder(calls) ==
  \E i \in 1 .. Len(calls) : calls[i] \in {"embed_documents", "embed_query"}

\* the embedder after a run that made these calls
EmbedderAfter(e, calls) ==
  IF UsesEmbedder(calls) THEN GetEmbedder(e) ELSE [instance |-> e, built |-> 0]

Init ==
  /\ store = EmptyStore
  /\ _embedder = None
  /\ constructions = 0
  /\ call = NoCall
  /\ qres = <<>>
  /\ xres = NoResult
  /\ request = NoRequest
  /\ agg = NoAgg
  /\ pdf = NoPdf
  /\ pages = <<>>
  /\ filter = NoFilter

(***************************************************************************)
(* Spec: the operations of the vector store, each one call.                *)
(***************************************************************************)
create_vector_store(documents, collection_name, embedOk) ==
  LET r == CreateVectorStore(store, documents, collection_name, embedOk)
      e == EmbedderAfter(_embedder, r.calls)
  IN  /\ store' = r.store
      /\ _embedder' = e.instance
      /\ constructions' = constructions + e.built
      /\ call' = [NoCall EXCEPT !.op = "create_vector_store", !.name = collection_name,
                                !.documents = documents, !.outcome = r.outcome,
                                !.calls = r.calls, !.before = store]
      /\ qres' = <<>>
      /\ UNCHANGED <<xres, request, agg, pdf, pages, filter>>

\* client.get_collection(name) fails when the collection is not there
load_vector_store(collection_name) ==
  /\ call' = [NoCall EXCEPT !.op = "load_vector_store", !.name = collection_name,
                            !.outcome = IF store[collection_name].exists
                                        THEN "ok" ELSE "CollectionNotFound",
                            !.calls = <<"get_collection">>, !.before = store]
  /\ qres' = <<>>
  /\ UNCHANGED <<store, _embedder, constructions, xres, request, agg, pdf, pages, filter>>

query_vector_store(collection, query, k, embedOk) ==
  LET r == QueryVectorStore(store, collection, query, k, embedOk)
      e == EmbedderAfter(_embedder, r.calls)
  IN  /\ store[collection].exists
      /\ _embedder' = e.instance
      /\ constructions' = constructions + e.built
      /\ call' = [NoCall EXCEPT !.op = "query_vector_store", !.name = collection,
                                !.query = query, !.k = k, !.outcome = r.outcome,
                                !.calls = r.calls, !.before = store]
      /\ qres' = r.ranked
      /\ UNCHANGED <<store, xres, request, agg, pdf, pages, filter>>

Next ==
  \/ \E documents \in DocLists, name \in CollectionNames, embedOk \in BOOLEAN :
       create_vector_store(documents, name, embedOk)
  \/ \E name \in CollectionNames : load_vector_store(name)
  \/ \E name \in CollectionNames, query \in Attributes, k \in KValues, embedOk \in BOOLEAN :
       query_vector_store(name, query, k, embedOk)

Spec == Init /\ [][Next]_vars

(***************************************************************************)
(* SpecExtract: one extract_attribute call in a fresh process, against the *)
(* index an earlier build left (a failed build leaves an empty one).       *)
(***************************************************************************)
BuiltStores ==
  { CreateVectorStore(EmptyStore, d, DefaultCollection, ok).store :
      d \in IndexedLists, ok \in BOOLEAN }

\* attribute names are free text: one more, as near to every chunk as to any other
ExtractAttributes == Attributes \cup {"loan amount"}

Requests ==
  [collection : {DefaultCollection}, attribute_name : ExtractAttributes,
   k : ExtractKValues, env : Envs(Responses)]

InitExtract ==
  /\ store \in BuiltStores
  /\ request \in Requests
  /\ _embedder = None
  /\ constructions = 0
  /\ call = NoCall
  /\ qres = <<>>
  /\ xres = NoResult
  /\ agg = NoAgg
  /\ pdf = NoPdf
  /\ pages = <<>>
  /\ filter = NoFilter

extract_attribute ==
  LET r == ExtractAttribute(store, request.collection, request.attribute_name,
                            request.k, request.env)
      e == EmbedderAfter(_embedder, r.calls)
  IN  /\ _embedder' = e.instance
      /\ constructions' = constructions + e.built
      /\ call' = [NoCall EXCEPT !.op = "extract_attribute", !.name = request.collection,
                                !.query = request.attribute_name, !.k = request.k,
                                !.content = request.env.content, !.outcome = r.outcome,
                                !.calls = r.calls, !.before = store]
      /\ qres' = r.ranked
      /\ xres' = r.result
      /\ UNCHANGED <<store, request, agg, pdf, pages, filter>>

NextExtract == extract_attribute

SpecExtract == InitExtract /\ [][NextExtract]_vars

(***************************************************************************)
(* SpecAgg: extract_all_attributes(collection, attribute_list) in a fresh  *)
(* process against a built index, one iteration of its loop per step.      *)
(* The frame holds the local results dict (its pairs in insertion order),  *)
(* the position in the list, and how the call ended.  started and outcomes *)
(* record, per iteration, the attribute whose extraction began and how     *)
(* that extraction ended.                                                  *)
(***************************************************************************)
AttributeLists == SeqsUpTo(Attributes, MaxAttrs)

\* the answers of the language model drawn during an aggregation
AggResponses ==
  { StrContent(GoodObject),
    StrContent(<<Nl>> \o Prose \o <<Ws, Nl>>),
    StrContent(<<Num("42")>>) }

\* results[name] = value
DictSet(pairs, key, value) ==
  IF \E i \in 1 .. Len(pairs) : pairs[i][1] = key
  THEN [i \in 1 .. Len(pairs) |-> IF pairs[i][1] = key THEN <<key, value>> ELSE pairs[i]]
  ELSE Append(pairs, <<key, value>>)

\* one iteration that lets the failure pass and goes on with the next attribute
AggStep_Isolate(frame, r) ==
  IF r.outcome = "ok"
  THEN [frame EXCEPT !.results = DictSet(@, frame.attribute_list[frame.pos + 1], r.result),
                     !.pos = @ + 1]
  ELSE [frame EXCEPT !.pos = @ + 1]

\* one iteration of the loop, r what extract_attribute(collection, name) did:
\* its result is stored, or its error leaves the function
AggStep(frame, r) ==
  IF r.outcome = "ok"
  THEN [frame EXCEPT !.results = DictSet(@, frame.attribute_list[frame.pos + 1], r.result),
                     !.pos = @ + 1]
  ELSE [frame EXCEPT !.pc = "raised", !.error = r.outcome]

\* return results
AggReturn(frame) == [frame EXCEPT !.pc = "returned", !.returned = frame.results]

InitAgg ==
  /\ store \in BuiltStores
  /\ \E l \in AttributeLists : agg = [NoAgg EXCEPT !.pc = "loop", !.attribute_list = l]
  /\ _embedder = None
  /\ constructions = 0
  /\ call = NoCall
  /\ qres = <<>>
  /\ xres = NoResult
  /\ request = NoRequest
  /\ pdf = NoPdf
  /\ pages = <<>>
  /\ filter = NoFilter

extract_all_attributes_step(env) ==
  LET name == agg.attribute_list[agg.pos + 1]
      r == ExtractAttribute(store, DefaultCollection, name, DefaultK, env)
      e == EmbedderAfter(_embedder, r.calls)
  IN  /\ agg.pc = "loop"
      /\ agg.pos < Len(agg.attribute_list)
      /\ agg' = [AggStep(agg, r) EXCEPT !.started = Append(@, name),
                                        !.outcomes = Append(@, r.outcome)]
      /\ _embedder' = e.instance
      /\ constructions' = constructions + e.built
      /\ call' = [NoCall EXCEPT !.op = "extract_attribute", !.name = DefaultCollection,
                                !.query = name, !.k = DefaultK, !.content = env.content,
                                !.outcome = r.outcome, !.calls = r.calls, !.before = store]
      /\ qres' = r.ranked
      /\ xres' = r.result
      /\ UNCHANGED <<store, request, pdf, pages, filter>>

extract_all_attributes_return ==
  /\ agg.pc = "loop"
  /\ agg.pos >= Len(agg.attribute_list)
  /\ agg' = AggReturn(agg)
  /\ UNCHANGED <<store, _embedder, constructions, call, qres, xres, request, pdf, pages, filter>>

NextAgg ==
  \/ \E env \in Envs(AggResponses) : extract_all_attributes_step(env)
  \/ extract_all_attributes_return

SpecAgg == InitAgg /\ [][NextAgg]_vars

(***************************************************************************)
(* SpecPdf: extract_text_from_pdf(file_path).  A PDF is readable or not    *)
(* and has physical pages; extract_text() of a page gives a text, None, or *)
(* raises.                                                                 *)
(***************************************************************************)
PageTexts ==
  { <<>>, <<Ws>>, <<Nl, Ws>>, <<Word("A")>>, <<Ws, Word("A"), Nl>>,
    <<Word("A"), Nl, Word("B")>> }

PageOutcomes ==
  { [kind |-> "text", text |-> t] : t \in PageTexts }
  \cup { [kind |-> "none", text |-> <<>>], [kind |-> "raises", text |-> <<>>] }

Pdfs ==
  { [readable |-> TRUE, pages |-> ps] : ps \in SeqsUpTo(PageOutcomes, MaxPages) }
  \cup { [readable |-> FALSE, pages |-> <<>>] }

\* "if text and text.strip()" without the strip
HasText_NoStrip(page) == page.kind = "text" /\ page.text # <<>>

\* "if text and text.strip()"
HasText(page) == page.kind = "text" /\ page.text # <<>> /\ Strip(page.text) # <<>>

\* the page number of the page at index i of enumerate(pdf.pages)
PageNumber(i) == i + 1

\* the loop over enumerate(pdf.pages) from index i on, acc the pages so far; a
\* page whose extract_text() raises ends the call with that error
RECURSIVE PagesLoop(_, _, _)
PagesLoop(pdfpages, i, acc) ==
  IF i >= Len(pdfpages) THEN [outcome |-> "ok", pages |-> acc]
  ELSE LET page == pdfpages[i + 1]
       IN  IF page.kind = "raises" THEN [outcome |-> "PageError", pages |-> <<>>]
           ELSE IF HasText(page)
           THEN PagesLoop(pdfpages, i + 1, Append(acc, <<PageNumber(i), page.text>>))
           ELSE PagesLoop(pdfpages, i + 1, acc)

ExtractTextFromPdf(file) ==
  IF ~file.readable THEN [outcome |-> "DocumentReadError", pages |-> <<>>]
  ELSE PagesLoop(file.pages, 0, <<>>)

InitPdf ==
  /\ pdf \in Pdfs
  /\ pages = <<>>
  /\ filter = NoFilter
  /\ call = NoCall
  /\ store = EmptyStore
  /\ _embedder = None
  /\ constructions = 0
  /\ qres = <<>>
  /\ xres = NoResult
  /\ request = NoRequest
  /\ agg = NoAgg

extract_text_from_pdf ==
  LET r == ExtractTextFromPdf(pdf)
  IN  /\ pages' = r.pages
      /\ call' = [NoCall EXCEPT !.op = "extract_text_from_pdf", !.outcome = r.outcome]
      /\ UNCHANGED <<pdf, store, _embedder, constructions, qres, xres, request, agg, filter>>

NextPdf == extract_text_from_pdf

SpecPdf == InitPdf /\ [][NextPdf]_vars

(***************************************************************************)
(* SpecFilter: the boilerplate filter, find_repeated_lines(page_texts,     *)
(* threshold) followed by clean_page_text(text, repeated_lines) for every  *)
(* page, as load_and_chunk_pdf applies them.  A threshold is a fraction    *)
(* <<numerator, denominator>> that a float holds exactly, so that          *)
(* total_pages * threshold is exact.                                       *)
(***************************************************************************)
Thresholds == { <<1, 4>>, <<1, 2>>, <<3, 4>>, <<1, 1>> }

FilterTexts ==
  { <<Word("A"), Nl, Word("B")>>,
    <<Ws, Word("A"), Ws, Nl, Word("C")>>,
    <<Word("A"), Nl, Ws, Nl, Word("A"), Nl, Word("B")>>,
    <<Word("B")>>,
    <<>>,
    <<Ws, Nl>>,
    <<Word("C"), Nl, Word("A"), Nl>>,
    <<Word("A"), Ws, Word("B")>> }

PageTextLists == SeqsUpTo(FilterTexts, MaxPages)

\* str.splitlines(): the lines between newlines; a final newline opens no line
RECURSIVE SplitLines(_)
SplitLines(t) ==
  IF t = <<>> THEN <<>>
  ELSE IF \E i \in 1 .. Len(t) : t[i] = Nl
  THEN LET i == CHOOSE i \in 1 .. Len(t) : t[i] = Nl /\ \A j \in 1 .. (i - 1) : t[j] # Nl
       IN  <<SubSeq(t, 1, i - 1)>> \o SplitLines(SubSeq(t, i + 1, Len(t)))
  ELSE <<t>>

\* "\n".join(lines)
RECURSIVE JoinLines(_)
JoinLines(lines) ==
  IF lines = <<>> THEN <<>>
  ELSE IF Len(lines) = 1 THEN lines[1]
  ELSE lines[1] \o <<Nl>> \o JoinLines(Tail(lines))

\* set(line.strip() for line in text.splitlines() if line.strip())
UniqueLines(text) ==
  { Strip(SplitLines(text)[i]) : i \in 1 .. Len(SplitLines(text)) } \ { <<>> }

\* line_page_count after the loop over page_texts: line -> number of pages
RECURSIVE LinePageCount(_)
LinePageCount(page_texts) ==
  IF page_texts = <<>> THEN [line \in {} |-> 0]
  ELSE LET counts == LinePageCount(SubSeq(page_texts, 1, Len(page_texts) - 1))
           unique_lines == UniqueLines(page_texts[Len(page_texts)])
       IN  [line \in (DOMAIN counts) \cup unique_lines |->
             IF line \in unique_lines
             THEN (IF line \in DOMAIN counts THEN counts[line] ELSE 0) + 1
             ELSE counts[line]]

\* count >= total_pages * threshold
Exceeds_OrEqual(count, total_pages, threshold) ==
  count * threshold[2] >= total_pages * threshold[1]

\* count > total_pages * threshold
Exceeds(count, total_pages, threshold) ==
  count * threshold[2] > total_pages * threshold[1]

find_repeated_lines(page_texts, threshold) ==
  LET total_pages == Len(page_texts)
      line_page_count == LinePageCount(page_texts)
  IN  IF total_pages = 0 THEN {}
      ELSE { line \in DOMAIN line_page_count :
               Exceeds(line_page_count[line], total_pages, threshold) }

clean_page_text(text, repeated_lines) ==
  LET Keep(line) == Strip(line) # <<>> /\ Strip(line) \notin repeated_lines
  IN  Strip(JoinLines(SelectSeq(SplitLines(text), Keep)))

InitFilter ==
  /\ \E page_texts \in PageTextLists, threshold \in Thresholds :
       filter = [NoFilter EXCEPT !.page_texts = page_texts, !.threshold = threshold]
  /\ store = EmptyStore
  /\ _embedder = None
  /\ constructions = 0
  /\ call = NoCall
  /\ qres = <<>>
  /\ xres = NoResult
  /\ request = NoRequest
  /\ agg = NoAgg
  /\ pdf = NoPdf
  /\ pages = <<>>

\* repeated_lines = find_repeated_lines(page_texts), then clean_page_text per page
filter_pages ==
  LET repeated_lines == find_repeated_lines(filter.page_texts, filter.threshold)
  IN  /\ filter' = [filter EXCEPT
                      !.repeated = repeated_lines,
                      !.cleaned = [i \in 1 .. Len(filter.page_texts) |->
                                     clean_page_text(filter.page_texts[i], repeated_lines)],
                      !.done = TRUE]
      /\ UNCHANGED <<store, _embedder, constructions, call, qres, xres, request, agg,
                     pdf, pages>>

NextFilter == filter_pages

SpecFilter == InitFilter /\ [][NextFilter]_vars

(***************************************************************************)
(* Properties of the vector store (Spec).                                  *)
(***************************************************************************)
\* the population of the queried collection when the last call began
PopulationBefore == Len(call.before[call.name].entries)

\* C2: a query with k beyond the population of the collection ends with the
\* invalid-query error of the guard: count() is the only call made, neither the
\* embedding nor the storage query is reached, nothing is returned and the store
\* is as it was.
C2_BeyondPopulationRefused ==
  (call.op = "query_vector_store" /\ call.k > PopulationBefore) =>
    /\ call.outcome = "InvalidQuery"
    /\ call.calls = <<"count">>
    /\ qres = <<>>
    /\ store = call.before

\* a query for one more than the three stored chunks was refused
C2_Witness ==
  /\ call.op = "query_vector_store"
  /\ PopulationBefore = 3
  /\ call.k = 4
  /\ call.outcome = "InvalidQuery"

\* C3: a query with k below 1 is refused by the guard of query_vector_store
\* itself: count() is the only call made, the request reaches neither the
\* embedding model nor the storage layer.
C3_BelowOneRefused ==
  (call.op = "query_vector_store" /\ call.k < 1) =>
    /\ call.outcome = "InvalidQuery"
    /\ call.calls = <<"count">>

\* C5: a build whose embedding call failed leaves every persisted collection
\* with the chunks it held before the call: none of the new chunks stored, the
\* earlier ones still there.
C5_FailedBuildKeepsPriorState ==
  (call.op = "create_vector_store" /\ call.outcome = "EmbeddingError") =>
    \A n \in CollectionNames : store[n].entries = call.before[n].entries

\* C6: after a successful build the collection holds exactly the chunks of that
\* call: one entry per input chunk, the chunk at input position i (from 0)
\* under the id chunk_<i> with its text and its page, chunk_index and source,
\* and nothing of an earlier build.
C6_RebuildReplaces ==
  (call.op = "create_vector_store" /\ call.outcome = "ok") =>
    LET entries == store[call.name].entries
        documents == call.documents
    IN  /\ store[call.name].exists
        /\ Len(entries) = Len(documents)
        /\ \A i \in 1 .. Len(entries) :
             /\ entries[i].id = <<"chunk_", i - 1>>
             /\ entries[i].document = documents[i].page_content
             /\ entries[i].metadata.page = documents[i].metadata.page
             /\ entries[i].metadata.chunk_index = documents[i].metadata.chunk_index
             /\ entries[i].metadata.source = documents[i].metadata.source

\* a successful build of one chunk over a collection that held three
C6_Witness ==
  /\ call.op = "create_vector_store"
  /\ call.outcome = "ok"
  /\ Len(call.before[call.name].entries) = 3
  /\ Len(call.documents) = 1
  /\ Len(store[call.name].entries) = 1

(***************************************************************************)
(* Properties of extract_attribute (SpecExtract).                          *)
(***************************************************************************)
\* the language model was invoked and answered
ModelAnswered ==
  /\ call.op = "extract_attribute"
  /\ request.env.llmOk
  /\ call.calls # <<>>
  /\ call.calls[Len(call.calls)] = "llm.invoke"

\* the response text after trimming and fence stripping
CleanedResponse == StripFences(Strip(NormalizeContent(call.content)))

\* the response text is a JSON object
IsJsonObject(raw) == json_loads(raw).ok /\ json_loads(raw).val.t = "dict"

\* C1: whatever text the language model answers, extract_attribute returns a
\* result; when the cleaned text is no JSON object the result has the cleaned
\* text as value, confidence "low" and the parse-failure reasoning.
C1_MalformedOutputNeverRaises ==
  ModelAnswered =>
    /\ call.outcome = "ok"
    /\ ~IsJsonObject(CleanedResponse) =>
         /\ xres.value = PyStr(CleanedResponse)
         /\ xres.confidence = PyStr(Text("low"))
         /\ xres.reasoning = PyStr(Text("Failed to parse JSON"))

\* C4: against the index of a one-page document with a single chunk on page 1,
\* extract_attribute with the default k, the secret present, the embedding
\* working and the language model answering a JSON object, returns a result
\* whose source_pages is [1].
C4_OneChunkDefaultK ==
  ( /\ call.op = "extract_attribute"
    /\ Len(store[call.name].entries) = 1
    /\ store[call.name].entries[1].metadata.page = 1
    /\ call.k = DefaultK
    /\ request.env.secretOk /\ request.env.embedOk /\ request.env.llmOk
    /\ IsJsonObject(CleanedResponse) ) =>
    /\ call.outcome = "ok"
    /\ xres.source_pages = <<1>>

\* C10: the confidence of every returned Extraction Result is "high", "medium"
\* or "low".
C10_ConfidenceInEnum ==
  (call.op = "extract_attribute" /\ call.outcome = "ok") =>
    xres.confidence \in {PyStr(Text("high")), PyStr(Text("medium")), PyStr(Text("low"))}

(***************************************************************************)
(* Properties of extract_all_attributes (SpecAgg).                         *)
(***************************************************************************)
\* C7: the extractions run one per attribute in list order; an extraction that
\* fails is the last one started, its error leaves extract_all_attributes and
\* nothing is returned; a Result Set is returned only after every attribute of
\* the list was extracted.
C7_FirstFailureAborts ==
  agg.pc # "idle" =>
    /\ agg.started = SubSeq(agg.attribute_list, 1, Len(agg.started))
    /\ Len(agg.outcomes) = Len(agg.started)
    /\ \A i \in 1 .. Len(agg.outcomes) :
         agg.outcomes[i] # "ok" =>
           /\ i = Len(agg.outcomes)
           /\ agg.pc = "raised"
           /\ agg.error = agg.outcomes[i]
    /\ agg.pc = "raised" => agg.returned = <<>>
    /\ agg.pc = "returned" => agg.started = agg.attribute_list

\* the first of two extractions failed and the second never started
C7_Witness ==
  /\ agg.pc = "raised"
  /\ Len(agg.attribute_list) = 2
  /\ agg.started = <<agg.attribute_list[1]>>
  /\ agg.error = "GenerationError"

(***************************************************************************)
(* Properties of extract_text_from_pdf (SpecPdf).                          *)
(***************************************************************************)
\* the physical pages (1-based) whose text is not empty after trimming
Extractable ==
  { i \in 1 .. Len(pdf.pages) :
      pdf.pages[i].kind = "text" /\ Strip(pdf.pages[i].text) # <<>> }

\* the physical position of the j-th page with extractable text
NthExtractable(j) ==
  CHOOSE i \in Extractable : Cardinality({ x \in Extractable : x <= i }) = j

\* C8 as stated: every emitted Page has non-empty trimmed text and its page
\* number is its 1-based position among the pages with extractable text.
C8_NumberIsPositionAmongExtractable ==
  call.op = "extract_text_from_pdf" =>
    \A j \in 1 .. Len(pages) : Strip(pages[j][2]) # <<>> /\ pages[j][1] = j

\* C8 amended: every emitted Page has non-empty trimmed text, and the j-th
\* emitted Page carries the text and the 1-based physical position in the
\* document of the j-th page with extractable text.
C8_NumberIsPhysicalPosition ==
  call.op = "extract_text_from_pdf" =>
    /\ Len(pages) <= Cardinality(Extractable)
    /\ \A j \in 1 .. Len(pages) :
         /\ Strip(pages[j][2]) # <<>>
         /\ pages[j][1] = NthExtractable(j)
         /\ pages[j][2] = pdf.pages[NthExtractable(j)].text

\* a blank first page, then two pages with text: emitted as pages 2 and 3
C8_Witness ==
  /\ call.op = "extract_text_from_pdf"
  /\ call.outcome = "ok"
  /\ Len(pdf.pages) = 3
  /\ Len(pages) = 2
  /\ pages[1][1] = 2
  /\ pages[2][1] = 3

\* C9: when extract_text() of a page raises, the call still returns, and returns
\* every page with extractable text, in physical order.
C9_PageErrorSkipped ==
  ( /\ call.op = "extract_text_from_pdf"
    /\ pdf.readable
    /\ \E i \in 1 .. Len(pdf.pages) : pdf.pages[i].kind = "raises" ) =>
    /\ call.outcome = "ok"
    /\ Len(pages) = Cardinality(Extractable)
    /\ \A j \in 1 .. Len(pages) : pages[j][2] = pdf.pages[NthExtractable(j)].text

(***************************************************************************)
(* Properties of the boilerplate filter (SpecFilter).                      *)
(***************************************************************************)
\* the lines of page p
LinesOfPage(p) == SplitLines(filter.page_texts[p])

\* the number of distinct pages with a line whose trimmed form is this one
PagesWithLine(trimmed) ==
  Cardinality({ p \in 1 .. Len(filter.page_texts) :
                  \E i \in 1 .. Len(LinesOfPage(p)) : Strip(LinesOfPage(p)[i]) = trimmed })

\* the line is blank, or its trimmed form is on strictly more than
\* threshold x total_pages distinct pages
Removed(line) ==
  \/ Strip(line) = <<>>
  \/ PagesWithLine(Strip(line)) * filter.threshold[2]
       > filter.threshold[1] * Len(filter.page_texts)

\* the lines of a page that are not removed, in their order
RECURSIVE Survivors(_)
Survivors(lines) ==
  IF lines = <<>> THEN <<>>
  ELSE IF Removed(lines[1]) THEN Survivors(Tail(lines))
  ELSE <<lines[1]>> \o Survivors(Tail(lines))

\* C11: the filter removes a line of a page exactly when the line is blank or its
\* trimmed form is on strictly more than threshold x total_pages distinct pages
\* (a page counts once however often it holds the line); the other lines stay, in
\* their order, rejoined with newlines and trimmed; no pages gives an empty
\* repeated-line set.
C11_FilterRemovesRepeatedAndBlank ==
  filter.done =>
    /\ Len(filter.page_texts) = 0 => filter.repeated = {}
    /\ \A line \in filter.repeated : line # <<>> /\ Removed(line)
    /\ Len(filter.cleaned) = Len(filter.page_texts)
    /\ \A p \in 1 .. Len(filter.page_texts) :
         filter.cleaned[p] = Strip(JoinLines(Survivors(LinesOfPage(p))))

\* two pages at threshold 1/2: "A" is on both and goes, "B" and "C" are on one
\* page each, which is not more than half, and stay
C11_Witness ==
  /\ filter.done
  /\ filter.threshold = <<1, 2>>
  /\ filter.page_texts = << <<Word("A"), Nl, Word("B")>>,
                            <<Ws, Word("A"), Ws, Nl, Word("C")>> >>
  /\ filter.repeated = { <<Word("A")>> }
  /\ filter.cleaned = << <<Word("B")>>, <<Word("C")>> >>

(***************************************************************************)
(* Properties of the shared embedding model (Spec).                        *)
(***************************************************************************)
\* C13: over any sequence of create_vector_store and query_vector_store calls the
\* embedding model is constructed at most once; a call constructs it exactly when
\* it reaches _get_embedder while there is no instance yet, which is the first
\* call that needs it; every call that embeds has the instance, and once there
\* is an instance no later call replaces it.
C13_EmbedderConstructedOnce ==
  [][ /\ constructions' <= 1
      /\ constructions' \in {constructions, constructions + 1}
      /\ (constructions' = constructions + 1)
           <=> (UsesEmbedder(call'.calls) /\ _embedder = None)
      /\ UsesEmbedder(call'.calls) => _embedder' # None
      /\ _embedder # None => _embedder' = _embedder
      /\ (_embedder' = None) <=> (constructions' = 0) ]_vars

\* a query that embeds after a build: the build constructed the model, the query
\* found the instance and constructed nothing
C13_Witness ==
  /\ call.op = "query_vector_store"
  /\ UsesEmbedder(call.calls)
  /\ call.outcome = "ok"
  /\ _embedder # None
  /\ constructions = 1

(***************************************************************************)
(* Properties of source_pages (SpecExtract).                               *)
(***************************************************************************)
\* the page of each retrieved chunk, in retrieval rank order
RetrievedPages == [i \in 1 .. Len(qres) |-> qres[i].metadata.page]

\* the rank of the first retrieved chunk of this page
FirstRank(page) ==
  CHOOSE i \in 1 .. Len(qres) :
    /\ RetrievedPages[i] = page
    /\ \A j \in 1 .. (i - 1) : RetrievedPages[j] # page

\* C12: source_pages of a returned result holds every page of the retrieved
\* chunks, each once, in the order in which retrieval rank order first shows
\* them; it is not put in numerical order.
C12_SourcePagesFirstSeen ==
  (call.op = "extract_attribute" /\ call.outcome = "ok") =>
    LET sp == xres.source_pages
    IN  /\ \A i, j \in 1 .. Len(sp) : i # j => sp[i] # sp[j]
        /\ { sp[i] : i \in 1 .. Len(sp) }
             = { RetrievedPages[i] : i \in 1 .. Len(qres) }
        /\ \A i, j \in 1 .. Len(sp) : i < j => FirstRank(sp[i]) < FirstRank(sp[j])

\* chunks of pages 2, 1, 2, in this rank order, give source_pages 2, 1
C12_Witness ==
  /\ call.op = "extract_attribute"
  /\ call.outcome = "ok"
  /\ Len(qres) >= 3
  /\ RetrievedPages[1] = 2
  /\ RetrievedPages[2] = 1
  /\ RetrievedPages[3] = 2
  /\ xres.source_pages = <<2, 1>>

====
